---- MODULE Spec2Model ----
(***************************************************************************)
(* A model of hbcht (src/hbcht.py), the interpreter/compiler for the       *)
(* language Half-Broken Car in Heavy Traffic: the loader of source text    *)
(* and bytecode (CarProgram.load_data), the board walker that lowers a     *)
(* board to the command list (_board_to_commands, _path_to_commands), the  *)
(* interpreter (_interpret) and the bytecode writer (_hbcht_compile).      *)
(*                                                                         *)
(* Program data is a sequence of bytes (integers 0..255), as in the code.  *)
(* Python's 0-based indices are kept in the model's values (positions,     *)
(* command indices); TLA+ sequences are 1-based, so the command at index   *)
(* k of the code is commands[k + 1] here.                                  *)
(***************************************************************************)
EXTENDS Integers, Sequences, FiniteSets, TLC

\* ------------------------------------------------------------------------
\* Constants of the program (src/hbcht.py:50-53)

NOP == 0
DECREMENT == 1
INCREMENT == 2
PREV == 3
NEXT == 4
\* IF in the code; IF is a reserved word of TLA+.
IFOP == 5
GOTO == 6
EXIT == 7
CAR == 8
UP == 9
RIGHT == 10
DOWN == 11
LEFT == 12

\* Python's None, where the code keeps it in a place that otherwise holds a
\* number (the temporary command (None, None)).
None == -1

valid_directions == <<UP, RIGHT, DOWN, LEFT>>

base_mem_ops == {DECREMENT, INCREMENT, PREV, NEXT}

direction_to_path_map(d) ==
  CASE d = UP -> 0 [] d = RIGHT -> 1 [] d = DOWN -> 2 [] d = LEFT -> 3

ops_to_dirs_map(a) ==
  CASE a = DECREMENT -> DOWN [] a = INCREMENT -> UP
    [] a = PREV -> LEFT [] a = NEXT -> RIGHT

compl_action_map(a) ==
  CASE a = DECREMENT -> INCREMENT [] a = INCREMENT -> DECREMENT
    [] a = PREV -> NEXT [] a = NEXT -> PREV

\* ord(k) -> tile; a byte that is no key (KeyError) is a NOP.
opcode_to_const_map(c) ==
  CASE c = 118 -> DECREMENT   \* 'v'
    [] c = 94 -> INCREMENT    \* '^'
    [] c = 60 -> PREV         \* '<'
    [] c = 62 -> NEXT         \* '>'
    [] c = 47 -> IFOP           \* '/'
    [] c = 35 -> EXIT         \* '#'
    [] c = 111 -> CAR         \* 'o'
    [] OTHER -> NOP

\* ------------------------------------------------------------------------
\* Bounds of the model

\* Most acting tiles (v ^ < > /) on a generated board.
MaxActs == 2
\* Largest absolute value of a cell the interpreter is followed to.
MaxCell == 3
\* Largest absolute value of the cell pointer the interpreter is followed to.
MaxPtr == 2
\* Largest value in the input of a run.
MaxInput == 1
\* Largest repetition count the walker's fusion is followed to.
MaxCount == 3

\* ------------------------------------------------------------------------
\* Bytes and text

Newline == <<10>>
AtIntext == <<64, 105, 110, 116, 101, 120, 116>>
AtOuttext == <<64, 111, 117, 116, 116, 101, 120, 116>>
Magic == <<104, 98, 99, 104, 116>>
Whitespace == {9, 10, 11, 12, 13, 32}

Last(s) == s[Len(s)]
Front(s) == SubSeq(s, 1, Len(s) - 1)

\* bytes.startswith
StartsWith(line, prefix) ==
  /\ Len(line) >= Len(prefix)
  /\ SubSeq(line, 1, Len(prefix)) = prefix

\* data.split(b'\n'): the lines between the newline bytes, in order.
RECURSIVE SplitFrom(_, _, _)
SplitFrom(data, k, cur) ==
  IF k > Len(data) THEN <<cur>>
  ELSE IF data[k] = 10 THEN <<cur>> \o SplitFrom(data, k + 1, <<>>)
  ELSE SplitFrom(data, k + 1, Append(cur, data[k]))

Split(data) == SplitFrom(data, 1, <<>>)

\* re.match(br'(.*?);', line): the text before the first ';', if there is one.
RECURSIVE SemiAt(_, _)
SemiAt(line, k) ==
  IF k > Len(line) THEN 0
  ELSE IF line[k] = 59 THEN k
  ELSE SemiAt(line, k + 1)

StripComment(line) ==
  LET k == SemiAt(line, 1) IN IF k = 0 THEN line ELSE SubSeq(line, 1, k - 1)

RECURSIVE rstrip(_)
rstrip(line) ==
  IF Len(line) > 0 /\ Last(line) \in Whitespace THEN rstrip(Front(line))
  ELSE line

RECURSIVE lstrip(_)
lstrip(line) ==
  IF Len(line) > 0 /\ Head(line) \in Whitespace THEN lstrip(Tail(line))
  ELSE line

\* ------------------------------------------------------------------------
\* CarProgram._create_commands, up to the call of _board_to_commands

\* The flag arguments of CarProgram are None, True or False.
FlagValues == {"None", "True", "False"}

\* Python's truth value of a flag: None and False are false.
Truthy(flag) == flag = "True"

\* A loader without the `is None` tests of lines 509 and 514: the directive
\* wins over the caller.
DirectiveFlagAlways(flag) == "True"

\* The flag after a directive line: set only if the caller gave None.
DirectiveFlag(flag) == IF flag = "None" THEN "True" ELSE flag

\* The loop over data.split(b'\n'): st is the state of the loop's variables
\* before line k.
RECURSIVE ScanLines(_, _, _)
ScanLines(ls, k, st) ==
  IF k > Len(ls) THEN st
  ELSE LET line == ls[k] IN
    IF StartsWith(line, AtIntext) THEN
      ScanLines(ls, k + 1,
        [st EXCEPT !.idone = TRUE,
                   !.meta_in = IF st.inputastext = "None" THEN TRUE ELSE @,
                   !.inputastext = DirectiveFlag(@)])
    ELSE IF StartsWith(line, AtOuttext) THEN
      ScanLines(ls, k + 1,
        [st EXCEPT !.odone = TRUE,
                   !.meta_out = IF st.outputastext = "None" THEN TRUE ELSE @,
                   !.outputastext = DirectiveFlag(@)])
    ELSE LET l == rstrip(StripComment(line)) IN
      ScanLines(ls, k + 1,
        IF Len(l) > 0 THEN [st EXCEPT !.lines = Append(@, l)] ELSE st)

\* The flags and the kept lines after the loop and the two `if not idone` /
\* `if not odone` blocks that follow it. metadata starts False, False
\* (load_data).
ReadLines(data, inputastext, outputastext) ==
  LET st == ScanLines(Split(data), 1,
              [lines |-> <<>>, idone |-> FALSE, odone |-> FALSE,
               inputastext |-> inputastext, outputastext |-> outputastext,
               meta_in |-> FALSE, meta_out |-> FALSE])
  IN [st EXCEPT
        !.meta_in = IF ~st.idone /\ Truthy(st.inputastext) THEN TRUE ELSE @,
        !.meta_out = IF ~st.odone /\ Truthy(st.outputastext) THEN TRUE ELSE @]

Indent(line) == Len(line) - Len(lstrip(line))

\* The for/else loop over the indents: 0 when the loop breaks on a line
\* with no indent (nothing is cut), otherwise the least indent.
RECURSIVE MinIndentFrom(_, _, _)
MinIndentFrom(lines, k, m) ==
  IF k > Len(lines) THEN m
  ELSE IF Indent(lines[k]) = 0 THEN 0
  ELSE MinIndentFrom(lines, k + 1,
         IF Indent(lines[k]) < m THEN Indent(lines[k]) ELSE m)

Deindent(lines) ==
  LET m == MinIndentFrom(lines, 1, Len(lines[1]))
  IN [k \in 1..Len(lines) |-> SubSeq(lines[k], m + 1, Len(lines[k]))]

\* The loop over the characters of the lines: st holds board (the rows
\* done), row (the row being built), has_car, has_exit, car_pos and err
\* (the CarError raised, "" while none is).
RECURSIVE ScanBoard(_, _, _, _)
ScanBoard(lines, y, x, st) ==
  IF st.err # "" THEN st
  ELSE IF y >= Len(lines) THEN st
  ELSE IF x >= Len(lines[y + 1]) THEN
    ScanBoard(lines, y + 1, 0,
      [st EXCEPT !.board = Append(@, st.row), !.row = <<>>])
  ELSE LET op == opcode_to_const_map(lines[y + 1][x + 1]) IN
    IF op = CAR THEN
      IF st.has_car
      THEN [st EXCEPT !.err = "program can only have one car"]
      ELSE ScanBoard(lines, y, x + 1,
             [st EXCEPT !.has_car = TRUE, !.car_pos = <<x, y>>,
                        !.row = Append(@, NOP)])
    ELSE IF op = EXIT /\ st.has_exit
      THEN [st EXCEPT !.err = "program can only have one exit"]
      ELSE ScanBoard(lines, y, x + 1,
             [st EXCEPT !.row = Append(@, op),
                        !.has_exit = IF op = EXIT THEN TRUE ELSE @])

\* A loader that does not ask for an exit.
MakeBoardNoExitCheck(lines) ==
  LET st == ScanBoard(lines, 0, 0,
              [board |-> <<>>, row |-> <<>>, has_car |-> FALSE,
               has_exit |-> FALSE, car_pos |-> <<0, 0>>, err |-> ""])
  IN IF st.err # "" THEN st
     ELSE IF ~st.has_car THEN [st EXCEPT !.err = "program must have one car"]
     ELSE st

\* The board of the lines, or the error of the first check that fails.
MakeBoard(lines) ==
  LET st == ScanBoard(lines, 0, 0,
              [board |-> <<>>, row |-> <<>>, has_car |-> FALSE,
               has_exit |-> FALSE, car_pos |-> <<0, 0>>, err |-> ""])
  IN IF st.err # "" THEN st
     ELSE IF ~st.has_car THEN [st EXCEPT !.err = "program must have one car"]
     ELSE IF ~st.has_exit THEN [st EXCEPT !.err = "program must have one exit"]
     ELSE st

\* ------------------------------------------------------------------------
\* State

VARIABLES
  data,          \* CarProgram.data: the bytes given (source text or bytecode)
  inputastext,   \* CarProgram.inputastext: "None", "True" or "False"
  outputastext,  \* CarProgram.outputastext
  metadata,      \* CarProgram.metadata: the two flags written when compiling
  pc,            \* where the program is: "start", "walk", "ret", "loaded",
                 \* "error"
  err,           \* the message of the error raised ("" while none is)
  board,         \* the board: rows of tiles (walker)
  car_start_pos, \* <<x, y>> of the car
  commands,      \* the command list: <<operation, argument>> pairs
  begs,          \* begs of _board_to_commands, then command_beginnings
  xys,           \* the stack of coordinates, above its falsy sentinel
  pos_ids,       \* coordinate -> index in commands
  stack,         \* the activations of _path_to_commands, innermost last
  compiled,      \* the bytes compile() wrote (<<>> while none are)
  orig,          \* the program whose bytecode was loaded again (<<>> if none)
  rpc,           \* run(): "idle", "running", "done" or "crashed"
  paths,         \* run(): the paths still to interpret, the current first
  input,         \* run(): the input after its conversion
  j,             \* _interpret: the current command
  i,             \* _interpret: the current cell
  cells,         \* _interpret: the cells that have a value
  outs,          \* run(): the results of the paths done
  directions,    \* run(): the directions argument (<<>> if not given)
  kept,          \* what the caller keeps of an earlier call of run()
  art            \* the program compile() emitted as Python or C, and its run

loadVars == <<data, inputastext, outputastext, metadata>>
walkVars == <<board, car_start_pos, xys, pos_ids, stack>>
runVars == <<rpc, paths, input, j, i, cells, outs, directions, kept, art>>
restVars == <<compiled, orig, rpc, paths, input, j, i, cells, outs, directions,
              kept, art>>
vars == <<data, inputastext, outputastext, metadata, pc, err, board,
          car_start_pos, commands, begs, xys, pos_ids, stack, compiled, orig,
          rpc, paths, input, j, i, cells, outs, directions, kept, art>>

EmptyMap == [k \in {} |-> 0]

\* No program has been emitted.
NoArtifact == [lang |-> "none"]

\* One activation of _path_to_commands: its x, y, direc and begin_pos, and
\* cid while it waits for the walk of an If's branch.
Frame(x, y, direc, begin_pos) ==
  [x |-> x, y |-> y, direc |-> direc, begin_pos |-> begin_pos, cid |-> None]

Top == stack[Len(stack)]

\* ------------------------------------------------------------------------
\* CarProgram._path_to_commands

\* One pass of the inner loop `while p == NOP`: the step in direction direc.
Move(x, y, direc) ==
  CASE direc = UP -> <<x, (y - 1) % Len(board)>>
    [] direc = DOWN -> <<x, (y + 1) % Len(board)>>
    [] direc = RIGHT -> <<(x + 1) % Len(board[y + 1]), y>>
    [] direc = LEFT -> <<(x - 1) % Len(board[y + 1]), y>>

\* A walker that reads past the end of a row from the start of the row.
TileAtWrapped(x, y) == board[y + 1][(x % Len(board[y + 1])) + 1]

\* p = board[y][x], a NOP on IndexError.
TileAt(x, y) ==
  IF x < Len(board[y + 1]) THEN board[y + 1][x + 1] ELSE NOP

\* A walker whose redirectors act whatever the direction of the car.
ClassifyAlways(p, direc) ==
  IF p \in base_mem_ops \cup {IFOP, EXIT} THEN p ELSE None

\* The if/elif chain that yields action (None when no branch assigns it;
\* EXIT for the branch that appends the exit and breaks).
Classify(p, direc) ==
  IF p = DECREMENT /\ direc # LEFT THEN DECREMENT
  ELSE IF p = INCREMENT /\ direc # RIGHT THEN INCREMENT
  ELSE IF p = PREV /\ direc # UP THEN PREV
  ELSE IF p = NEXT /\ direc # DOWN THEN NEXT
  ELSE IF p = IFOP THEN IFOP
  ELSE IF p = EXIT THEN EXIT
  ELSE None

\* Where the car is after the step, the tile there and what it means.
NewPos == Move(Top.x, Top.y, Top.direc)
NewTile == TileAt(NewPos[1], NewPos[2])
NewAction == Classify(NewTile, Top.direc)

\* pc = commands[-1] if commands else (None, None)
PrevCommand == IF Len(commands) > 0 THEN Last(commands) ELSE <<None, None>>

\* direc after the action: a memory action forces its direction.
NewDirec(action) ==
  IF action \in base_mem_ops THEN ops_to_dirs_map(action) ELSE Top.direc

\* The activation after the step, at the new position.
Moved(direc) ==
  [Top EXCEPT !.x = NewPos[1], !.y = NewPos[2], !.direc = direc]

SetTop(f) == [stack EXCEPT ![Len(stack)] = f]

\* A walker that writes a changed count into the first command.
SetFirst(cmds, c) == [cmds EXCEPT ![1] = c]

\* pc[1] += 1 and pc[1] -= 1: pc is commands[-1].
SetLast(cmds, c) == [cmds EXCEPT ![Len(cmds)] = c]

\* A test that looks for an IF after the command at pos only.
HasIfAfter(cmds, pos) == \E k \in (pos + 2)..Len(cmds) : cmds[k][1] = IFOP

\* IF in (x for x, a in commands[pos:])
HasIfFrom(cmds, pos) == \E k \in (pos + 1)..Len(cmds) : cmds[k][1] = IFOP

\* A walker that folds no repeated action into the last command.
IsSameNever(action) == action \in base_mem_ops /\ PrevCommand = <<action, 0>>

\* The branches of `if action:` a classified tile takes.
IsSame(action) == action \in base_mem_ops /\ PrevCommand[1] = action
\* A walker that cancels a memory action against an Exit as well.
IsComplOrExit(action) ==
  /\ action \in base_mem_ops
  /\ PrevCommand[1] # action
  /\ PrevCommand[1] \in {compl_action_map(action), EXIT}

IsCompl(action) ==
  /\ action \in base_mem_ops
  /\ ~IsSame(action)
  /\ PrevCommand[1] = compl_action_map(action)
IsNew(action) ==
  /\ action \in base_mem_ops \cup {IFOP}
  /\ ~IsSame(action)
  /\ ~IsCompl(action)

Walking == pc = "walk" /\ Len(stack) > 0

\* The tile is empty (or past the end of its row): the inner loop goes on.
Advance ==
  /\ Walking
  /\ NewTile = NOP
  /\ stack' = SetTop(Moved(Top.direc))
  /\ UNCHANGED <<loadVars, restVars, pc, err, board, car_start_pos, commands, begs,
                 xys, pos_ids>>

\* A tile that leaves action None (a redirector met from the side that
\* ignores it): the outer loop goes round without a command.
Ignore ==
  /\ Walking
  /\ NewTile # NOP
  /\ NewAction = None
  /\ stack' = SetTop(Moved(Top.direc))
  /\ UNCHANGED <<loadVars, restVars, pc, err, board, car_start_pos, commands, begs,
                 xys, pos_ids>>

\* commands.append((EXIT, 0)); break
EmitExit ==
  /\ Walking
  /\ NewAction = EXIT
  /\ commands' = Append(commands, <<EXIT, 0>>)
  /\ stack' = SetTop(Moved(Top.direc))
  /\ pc' = "ret"
  /\ UNCHANGED <<loadVars, restVars, err, board, car_start_pos, begs, xys, pos_ids>>

\* A walker that writes a command of its own for a repeated action.
FuseAppend ==
  /\ Walking
  /\ IsSame(NewAction)
  /\ PrevCommand[2] < MaxCount
  /\ commands' = Append(commands, <<NewAction, 1>>)
  /\ stack' = SetTop(Moved(NewDirec(NewAction)))
  /\ UNCHANGED <<loadVars, restVars, pc, err, board, car_start_pos, begs, xys, pos_ids>>

\* pc[1] += 1
Fuse ==
  /\ Walking
  /\ IsSame(NewAction)
  /\ PrevCommand[2] < MaxCount
  /\ commands' = SetLast(commands, <<NewAction, PrevCommand[2] + 1>>)
  /\ stack' = SetTop(Moved(NewDirec(NewAction)))
  /\ UNCHANGED <<loadVars, restVars, pc, err, board, car_start_pos, begs, xys, pos_ids>>

\* A walker that deletes the cancelled command and leaves its coordinate
\* in pos_ids and xys.
CancelKeepsEntry ==
  /\ Walking
  /\ IsCompl(NewAction)
  /\ stack' = SetTop(Moved(NewDirec(NewAction)))
  /\ commands' = IF PrevCommand[2] > 1
                 THEN SetLast(commands, <<PrevCommand[1], PrevCommand[2] - 1>>)
                 ELSE Front(commands)
  /\ UNCHANGED <<loadVars, restVars, board, car_start_pos, begs, xys, pos_ids,
                 pc, err>>

\* pc[1] -= 1, or the command, its pos_ids entry and its xys entry deleted.
\* del pos_ids[pp] raises KeyError when pp is no key.
Cancel ==
  /\ Walking
  /\ IsCompl(NewAction)
  /\ stack' = SetTop(Moved(NewDirec(NewAction)))
  /\ IF PrevCommand[2] > 1
     THEN /\ commands' = SetLast(commands,
                           <<PrevCommand[1], PrevCommand[2] - 1>>)
          /\ UNCHANGED <<xys, pos_ids, pc, err>>
     ELSE /\ commands' = Front(commands)
          /\ IF Last(xys) = <<>>
             THEN UNCHANGED <<xys, pos_ids, pc, err>>
             ELSE IF Last(xys) \in DOMAIN pos_ids
               THEN /\ pos_ids' = [k \in DOMAIN pos_ids \ {Last(xys)} |->
                                    pos_ids[k]]
                    /\ xys' = Front(xys)
                    /\ UNCHANGED <<pc, err>>
               ELSE /\ pc' = "error"
                    /\ err' = "KeyError"
                    /\ UNCHANGED <<xys, pos_ids>>
  /\ UNCHANGED <<loadVars, restVars, board, car_start_pos, begs>>

\* A variant of the test that lets a join onto the first command of the
\* path through.
IsInfiniteLoopPastBegin(pos) == pos > Top.begin_pos /\ ~HasIfFrom(commands, pos)

\* The test that raises CarError('infinite loop present').
IsInfiniteLoop(pos) == pos >= Top.begin_pos /\ ~HasIfFrom(commands, pos)

\* The coordinate has a command already: commands.append((GOTO, pos)); break
Join ==
  /\ Walking
  /\ IsNew(NewAction)
  /\ NewPos \in DOMAIN pos_ids
  /\ ~IsInfiniteLoop(pos_ids[NewPos])
  /\ commands' = Append(commands, <<GOTO, pos_ids[NewPos]>>)
  /\ stack' = SetTop(Moved(NewDirec(NewAction)))
  /\ pc' = "ret"
  /\ UNCHANGED <<loadVars, restVars, err, board, car_start_pos, begs, xys, pos_ids>>

\* raise CarError('infinite loop present')
InfiniteLoop ==
  /\ Walking
  /\ IsNew(NewAction)
  /\ NewPos \in DOMAIN pos_ids
  /\ IsInfiniteLoop(pos_ids[NewPos])
  /\ stack' = SetTop(Moved(NewDirec(NewAction)))
  /\ pc' = "error"
  /\ err' = "infinite loop present"
  /\ UNCHANGED <<loadVars, restVars, board, car_start_pos, commands, begs, xys, pos_ids>>

\* A memory action at a new coordinate: recorded and appended with count 1.
EmitMem ==
  /\ Walking
  /\ IsNew(NewAction)
  /\ NewAction \in base_mem_ops
  /\ NewPos \notin DOMAIN pos_ids
  /\ pos_ids' = [k \in DOMAIN pos_ids \cup {NewPos} |->
                  IF k = NewPos THEN Len(commands) ELSE pos_ids[k]]
  /\ xys' = Append(xys, NewPos)
  /\ commands' = Append(commands, <<NewAction, 1>>)
  /\ stack' = SetTop(Moved(NewDirec(NewAction)))
  /\ UNCHANGED <<loadVars, restVars, pc, err, board, car_start_pos, begs>>

\* A walker whose branch turns the other way.
ndirecLeft(direc) ==
  CASE direc = UP -> LEFT [] direc = LEFT -> DOWN
    [] direc = DOWN -> RIGHT [] direc = RIGHT -> UP

\* The direction of an If's branch.
ndirec(direc) ==
  CASE direc = UP -> RIGHT [] direc = RIGHT -> DOWN
    [] direc = DOWN -> LEFT [] direc = LEFT -> UP

\* A walker that records the coordinate of an If in pos_ids and does not
\* push it onto xys.
EmitIfUnpushed ==
  /\ Walking
  /\ IsNew(NewAction)
  /\ NewAction = IFOP
  /\ NewPos \notin DOMAIN pos_ids
  /\ commands' = Append(commands, <<None, None>>)
  /\ pos_ids' = [k \in DOMAIN pos_ids \cup {NewPos} |->
                  IF k = NewPos THEN Len(commands) ELSE pos_ids[k]]
  /\ stack' = Append(SetTop([Moved(Top.direc) EXCEPT !.cid = Len(commands)]),
                     Frame(NewPos[1], NewPos[2], ndirec(Top.direc),
                           Len(commands) + 1))
  /\ UNCHANGED <<loadVars, restVars, pc, err, board, car_start_pos, begs, xys>>

\* An If at a new coordinate: the temporary command, and the walk of the
\* branch begins (the recursive call).
EmitIf ==
  /\ Walking
  /\ IsNew(NewAction)
  /\ NewAction = IFOP
  /\ NewPos \notin DOMAIN pos_ids
  /\ commands' = Append(commands, <<None, None>>)
  /\ xys' = Append(xys, NewPos)
  /\ pos_ids' = [k \in DOMAIN pos_ids \cup {NewPos} |->
                  IF k = NewPos THEN Len(commands) ELSE pos_ids[k]]
  /\ stack' = Append(SetTop([Moved(Top.direc) EXCEPT !.cid = Len(commands)]),
                     Frame(NewPos[1], NewPos[2], ndirec(Top.direc),
                           Len(commands) + 1))
  /\ UNCHANGED <<loadVars, restVars, pc, err, board, car_start_pos, begs>>

\* A walker whose IF skips one command too many.
IfCommandPastNext == <<IFOP, Len(commands) + 1>>

\* The command that replaces the temporary one: (IF, len(commands)).
IfCommand == <<IFOP, Len(commands)>>

\* The walk of a branch returns: commands[cid] = (IF, len(commands)), and
\* the caller's loop goes on.
Return ==
  /\ pc = "ret"
  /\ Len(stack) > 1
  /\ LET caller == stack[Len(stack) - 1] IN
       /\ commands' = [commands EXCEPT ![caller.cid + 1] = IfCommand]
       /\ stack' = Append(SubSeq(stack, 1, Len(stack) - 2),
                          [caller EXCEPT !.cid = None])
  /\ pc' = "walk"
  /\ UNCHANGED <<loadVars, restVars, err, board, car_start_pos, begs, xys, pos_ids>>

\* ------------------------------------------------------------------------
\* CarProgram._board_to_commands

\* A path is done and a direction is left: begs.append(len(commands)) and
\* the next call of _path_to_commands.
NextPath ==
  /\ pc = "ret"
  /\ Len(stack) = 1
  /\ Len(begs) < Len(valid_directions)
  /\ begs' = Append(begs, Len(commands))
  /\ stack' = <<Frame(car_start_pos[1], car_start_pos[2],
                      valid_directions[Len(begs) + 1], Len(commands))>>
  /\ pc' = "walk"
  /\ UNCHANGED <<loadVars, restVars, err, board, car_start_pos, commands, xys, pos_ids>>

\* The last path is done: begs = begs[1:], and load_data has the program.
Finish ==
  /\ pc = "ret"
  /\ Len(stack) = 1
  /\ Len(begs) = Len(valid_directions)
  /\ begs' = Tail(begs)
  /\ stack' = <<>>
  /\ pc' = "loaded"
  /\ UNCHANGED <<loadVars, restVars, err, board, car_start_pos, commands, xys, pos_ids>>

\* ------------------------------------------------------------------------
\* CarProgram.load_data and _parse_data

\* The header test of _parse_data (an IndexError makes it False).
compcond(d) ==
  /\ d[1] = 1
  /\ SubSeq(d, 2, 6) = Magic
  /\ Len(d) >= 8
  /\ d[8] = 2

\* raise CarError('no program data')
LoadNothing ==
  /\ pc = "start"
  /\ data = <<>>
  /\ pc' = "error"
  /\ err' = "no program data"
  /\ metadata' = metadata
  /\ UNCHANGED <<data, inputastext, outputastext, walkVars, commands, begs,
                 restVars>>

\* _create_commands: the flags, the lines, the board and its car, and the
\* first call of _board_to_commands' loop (direction UP from the car).
LoadSource ==
  /\ pc = "start"
  /\ data # <<>>
  /\ ~compcond(data)
  /\ LET r == ReadLines(data, inputastext, outputastext) IN
       /\ inputastext' = r.inputastext
       /\ outputastext' = r.outputastext
       /\ metadata' = [inputastext |-> r.meta_in, outputastext |-> r.meta_out]
       /\ IF r.lines = <<>>
          THEN /\ pc' = "error"
               /\ err' = "no source code"
               /\ UNCHANGED <<walkVars, commands, begs>>
          ELSE LET b == MakeBoard(Deindent(r.lines)) IN
            IF b.err # ""
            THEN /\ pc' = "error"
                 /\ err' = b.err
                 /\ UNCHANGED <<walkVars, commands, begs>>
            ELSE /\ pc' = "walk"
                 /\ err' = err
                 /\ board' = b.board
                 /\ car_start_pos' = b.car_pos
                 /\ commands' = <<>>
                 /\ begs' = <<0>>
                 /\ xys' = << <<>> >>
                 /\ pos_ids' = EmptyMap
                 /\ stack' = <<Frame(b.car_pos[1], b.car_pos[2],
                                     valid_directions[1], 0)>>
  /\ UNCHANGED <<data, restVars>>

\* ------------------------------------------------------------------------
\* CarProgram._extract_commands

\* struct.unpack('<I', ...) of 4 bytes.
Unpack32(b) == b[1] + 256 * b[2] + 65536 * b[3] + 16777216 * b[4]

\* struct.unpack('<' + 'I' * (len(data) // 4), data)
Words(body) ==
  [k \in 1..(Len(body) \div 4) |-> Unpack32(SubSeq(body, 4 * k - 3, 4 * k))]

\* tuple((data[i], data[i + 1]) for i in range(3, len(data), 2))
PairUp(w) ==
  [k \in 1..((Len(w) - 3 + 1) \div 2) |-> <<w[2 * k + 2], w[2 * k + 3]>>]

\* A decoder that tests `a > len(commands)`: an argument equal to N passes.
OutOfScopeOffByOne(cmds) ==
  \E k \in 1..Len(cmds) : cmds[k][1] \in {GOTO, IFOP} /\ cmds[k][2] > Len(cmds)

\* The loop that raises CarError('code position out of scope').
OutOfScope(cmds) ==
  \E k \in 1..Len(cmds) : cmds[k][1] \in {GOTO, IFOP} /\ cmds[k][2] >= Len(cmds)

\* What _extract_commands does with the data: the error it raises ("" if
\* none), and the commands and beginnings it returns.
Extract(d) ==
  LET body == SubSeq(d, 11, Len(d))
      w == Words(body)
      bad(e) == [err |-> e, commands |-> <<>>, begs |-> <<>>]
  IN IF d[7] > 1 THEN bad("only version 1 is supported")
     ELSE IF Len(d) < 10 THEN bad("IndexError")
     ELSE IF Len(body) % 4 # 0 THEN bad("struct.error")
     ELSE IF Len(w) > 3 /\ (Len(w) - 3) % 2 = 1 THEN bad("IndexError")
     ELSE IF OutOfScope(PairUp(w)) THEN bad("code position out of scope")
     ELSE [err |-> "", commands |-> PairUp(w),
           begs |-> SubSeq(w, 1, IF Len(w) < 3 THEN Len(w) ELSE 3)]

\* A flag after the header byte is read: set only if the byte is 1 and the
\* caller gave None.
HeaderFlag(flag, byte) == IF byte = 1 /\ flag = "None" THEN "True" ELSE flag

\* load_data on compiled data: _parse_data calls _extract_commands.
LoadBytecode ==
  /\ pc = "start"
  /\ data # <<>>
  /\ compcond(data)
  /\ LET r == Extract(data) IN
       /\ pc' = IF r.err = "" THEN "loaded" ELSE "error"
       /\ err' = r.err
       /\ commands' = r.commands
       /\ begs' = r.begs
       /\ inputastext' =
            IF data[7] <= 1 /\ Len(data) >= 9
            THEN HeaderFlag(inputastext, data[9]) ELSE inputastext
       /\ outputastext' =
            IF data[7] <= 1 /\ Len(data) >= 10
            THEN HeaderFlag(outputastext, data[10]) ELSE outputastext
  /\ metadata' = [inputastext |-> FALSE, outputastext |-> FALSE]
  /\ UNCHANGED <<data, walkVars, restVars>>

\* ------------------------------------------------------------------------
\* CarProgram.compile to HBCHT bytecode: _compile, _hbcht_compile

\* struct.pack('<I', n)
Pack32(n) ==
  <<n % 256, (n \div 256) % 256, (n \div 65536) % 256, (n \div 16777216) % 256>>

RECURSIVE PackAll(_)
PackAll(w) == IF w = <<>> THEN <<>> ELSE Pack32(Head(w)) \o PackAll(Tail(w))

RECURSIVE Flatten(_)
Flatten(cmds) ==
  IF cmds = <<>> THEN <<>> ELSE <<Head(cmds)[1], Head(cmds)[2]>> \o Flatten(Tail(cmds))

\* The bytes _hbcht_compile writes.
hbcht_compile(cmds, bs, inptext, outtext) ==
  <<1>> \o Magic \o <<1, 2>>
  \o <<IF inptext THEN 1 ELSE 2>>
  \o <<IF outtext THEN 1 ELSE 2>>
  \o PackAll(bs)
  \o PackAll(Flatten(cmds))

\* compile(language='hbc') of a loaded program that has not been run;
\* struct.pack('<III', *begs) needs three beginnings.
Compile ==
  /\ pc = "loaded"
  /\ rpc = "idle"
  /\ compiled = <<>>
  /\ Len(begs) = 3
  /\ compiled' = hbcht_compile(commands, begs, metadata.inputastext,
                               metadata.outputastext)
  /\ UNCHANGED <<loadVars, pc, err, walkVars, commands, begs, orig, runVars>>

\* CarProgram(data=compiled) with no flag given: the program of the bytes
\* written becomes the data of a second program; orig keeps the first.
Reload ==
  /\ pc = "loaded"
  /\ compiled # <<>>
  /\ orig = <<>>
  /\ orig' = <<[commands |-> commands, begs |-> begs,
                inputastext |-> inputastext, outputastext |-> outputastext,
                compiled |-> compiled, data |-> data]>>
  /\ data' = compiled
  /\ inputastext' = "None"
  /\ outputastext' = "None"
  /\ metadata' = [inputastext |-> FALSE, outputastext |-> FALSE]
  /\ pc' = "start"
  /\ commands' = <<>>
  /\ begs' = <<>>
  /\ compiled' = <<>>
  /\ UNCHANGED <<err, walkVars, runVars>>

\* ------------------------------------------------------------------------
\* CarProgram.run and CarProgram._interpret

\* str(n) as bytes: the decimal digits, a '-' before a negative number.
RECURSIVE Digits(_)
Digits(n) ==
  IF n < 10 THEN <<48 + n>> ELSE Append(Digits(n \div 10), 48 + (n % 10))

Str(n) == IF n < 0 THEN <<45>> \o Digits(0 - n) ELSE Digits(n)

RECURSIVE JoinStr(_)
JoinStr(inp) == IF inp = <<>> THEN <<>> ELSE Str(Head(inp)) \o JoinStr(Tail(inp))

\* The input as run() hands it to _interpret: the code points of the text
\* of the numbers if inputastext, the numbers otherwise.
ConvertInput(inp) == IF Truthy(inputastext) THEN JoinStr(inp) ELSE inp

\* cells[k] of the defaultdict.
Get(c, k) == IF k \in DOMAIN c THEN c[k] ELSE 0

\* A store that lands on the cell to the right.
PutShifted(c, k, v) ==
  [n \in DOMAIN c \cup {k + 1} |-> IF n = k + 1 THEN v ELSE c[n]]

\* cells[k] = v (a read of a missing key stores its 0 too).
Put(c, k, v) == [n \in DOMAIN c \cup {k} |-> IF n = k THEN v ELSE c[n]]

\* sorted(filter(lambda kv: kv[1] != 0, cells.items()), key=lambda kv: kv[0])
RECURSIVE SortedFrom(_, _)
SortedFrom(c, keys) ==
  IF keys = {} THEN <<>>
  ELSE LET m == CHOOSE k \in keys : \A n \in keys : k <= n
       IN <<<<m, c[m]>>>> \o SortedFrom(c, keys \ {m})

\* A result without the filter: every cell the run touched.
ResultUnfiltered(c) == SortedFrom(c, DOMAIN c)

Result(c) == SortedFrom(c, {k \in DOMAIN c : c[k] # 0})

\* An interpreter that builds its cells on those of the run before.
BeginStale(ps, inp) ==
  /\ paths' = ps
  /\ i' = 0
  /\ cells' = [k \in DOMAIN cells \cup 0..(Len(inp) - 1) |->
                IF k \in 0..(Len(inp) - 1) THEN inp[k + 1] ELSE cells[k]]
  /\ IF ps[1] = 0
     THEN j' = 0 /\ rpc' = "running"
     ELSE IF ps[1] <= Len(begs)
       THEN j' = begs[ps[1]] /\ rpc' = "running"
       ELSE j' = 0 /\ rpc' = "crashed"

\* The first lines of _interpret: the cells of the input, i = 0 and j at
\* the beginning of the path (begs[path - 1] raises IndexError if missing).
Begin(ps, inp) ==
  /\ paths' = ps
  /\ i' = 0
  /\ cells' = [k \in 0..(Len(inp) - 1) |-> inp[k + 1]]
  /\ IF ps[1] = 0
     THEN j' = 0 /\ rpc' = "running"
     ELSE IF ps[1] <= Len(begs)
       THEN j' = begs[ps[1]] /\ rpc' = "running"
       ELSE j' = 0 /\ rpc' = "crashed"

\* The inputs of the runs: none, one value (one of them negative), two
\* values.
Inputs == {<<>>} \cup {<<v>> : v \in (0 - 1)..MaxInput} \cup {<<MaxInput, 0>>}

\* A run() that interprets the first direction for every direction given.
PathsOfFirst(dirs, pick) ==
  IF dirs = <<>> THEN <<direction_to_path_map(pick)>>
  ELSE [k \in 1..Len(dirs) |-> direction_to_path_map(dirs[1])]

\* The paths of a call of run(): those of the directions given, the one
\* of random.choice(_valid_directions) if none is given (pick).
PathsOf(dirs, pick) ==
  IF dirs = <<>> THEN <<direction_to_path_map(pick)>>
  ELSE [k \in 1..Len(dirs) |-> direction_to_path_map(dirs[k])]

\* run(input, directions=d) of a loaded program that has not been
\* compiled: one direction, given by the caller.
Run ==
  /\ pc = "loaded"
  /\ rpc = "idle"
  /\ compiled = <<>>
  /\ \E d \in 1..Len(valid_directions), inp \in Inputs :
       /\ input' = ConvertInput(inp)
       /\ outs' = <<>>
       /\ directions' = <<valid_directions[d]>>
       /\ Begin(PathsOf(<<valid_directions[d]>>, None), ConvertInput(inp))
  /\ kept' = <<>>
  /\ UNCHANGED <<loadVars, pc, err, walkVars, commands, begs, compiled, orig,
                 art>>

\* run(input) with no direction: random.choice picks one.
RunRandom ==
  /\ pc = "loaded"
  /\ rpc = "idle"
  /\ compiled = <<>>
  /\ \E pick \in 1..Len(valid_directions), inp \in Inputs :
       /\ input' = ConvertInput(inp)
       /\ outs' = <<>>
       /\ directions' = <<>>
       /\ Begin(PathsOf(<<>>, valid_directions[pick]), ConvertInput(inp))
  /\ kept' = <<>>
  /\ UNCHANGED <<loadVars, pc, err, walkVars, commands, begs, compiled, orig,
                 art>>

\* run(input, bruterun=True): the four directions in turn.
RunAll ==
  /\ pc = "loaded"
  /\ rpc = "idle"
  /\ compiled = <<>>
  /\ \E inp \in Inputs :
       /\ input' = ConvertInput(inp)
       /\ outs' = <<>>
       /\ directions' = valid_directions
       /\ Begin(PathsOf(valid_directions, None), ConvertInput(inp))
  /\ kept' = <<>>
  /\ UNCHANGED <<loadVars, pc, err, walkVars, commands, begs, compiled, orig,
                 art>>

\* A second call of run() on the same program with the same input, the
\* caller keeping what the first call returned: no direction, one
\* direction, or all four (bruterun).
RunAgain ==
  /\ pc = "loaded"
  /\ rpc = "done"
  /\ kept = <<>>
  /\ kept' = <<[directions |-> directions, outs |-> outs]>>
  /\ outs' = <<>>
  /\ input' = input
  /\ \E dirs \in {<<>>, valid_directions}
                  \cup {<<valid_directions[d]>> : d \in 1..Len(valid_directions)},
        pick \in 1..Len(valid_directions) :
       /\ directions' = dirs
       /\ Begin(PathsOf(dirs, valid_directions[pick]), input)
  /\ UNCHANGED <<loadVars, pc, err, walkVars, commands, begs, compiled, orig,
                 art>>

\* The command at j; commands[j] raises IndexError past the end.
Fetchable == j >= 0 /\ j < Len(commands)
Op == commands[j + 1][1]
Arg == commands[j + 1][2]

\* An interpreter without the `continue` of lines 745 and 748: a jump is
\* followed by `j += 1`.
NextCommandNoContinue ==
  IF Op = GOTO \/ (Op = IFOP /\ Get(cells, i) # Get(cells, i - 1))
  THEN Arg + 1 ELSE j + 1

\* An interpreter whose IF jumps when the two cells are equal.
NextCommandIfEqual ==
  IF Op = GOTO \/ (Op = IFOP /\ Get(cells, i) = Get(cells, i - 1))
  THEN Arg ELSE j + 1

\* j after the command: the argument of a GOTO and of an IF whose cells
\* differ (`j = a; continue`), j + 1 otherwise.
NextCommand ==
  IF Op = GOTO \/ (Op = IFOP /\ Get(cells, i) # Get(cells, i - 1))
  THEN Arg ELSE j + 1

\* One pass of the loop of _interpret that reads a command and stays in
\* the loop.
Step ==
  /\ rpc = "running"
  /\ Fetchable
  /\ Op # EXIT
  /\ j' = NextCommand
  /\ IF Op = DECREMENT THEN
       /\ Get(cells, i) - Arg >= 0 - MaxCell
       /\ cells' = Put(cells, i, Get(cells, i) - Arg)
       /\ i' = i
     ELSE IF Op = INCREMENT THEN
       /\ Get(cells, i) + Arg <= MaxCell
       /\ cells' = Put(cells, i, Get(cells, i) + Arg)
       /\ i' = i
     ELSE IF Op = PREV THEN
       /\ i - Arg >= 0 - MaxPtr
       /\ i' = i - Arg
       /\ cells' = cells
     ELSE IF Op = NEXT THEN
       /\ i + Arg <= MaxPtr
       /\ i' = i + Arg
       /\ cells' = cells
     ELSE IF Op = IFOP THEN
       /\ cells' = Put(Put(cells, i, Get(cells, i)), i - 1, Get(cells, i - 1))
       /\ i' = i
     ELSE
       /\ i' = i
       /\ cells' = cells
  /\ UNCHANGED <<loadVars, pc, err, walkVars, commands, begs, compiled, orig,
                 rpc, paths, input, outs, directions, kept, art>>

\* EXIT: the loop breaks, _interpret returns the sorted non-zero cells, and
\* run() goes on to its next path or is done.
Exit ==
  /\ rpc = "running"
  /\ Fetchable
  /\ Op = EXIT
  /\ outs' = Append(outs, Result(cells))
  /\ IF Len(paths) > 1
     THEN Begin(Tail(paths), input)
     ELSE /\ rpc' = "done"
          /\ paths' = <<>>
          /\ UNCHANGED <<j, i, cells>>
  /\ UNCHANGED <<loadVars, pc, err, walkVars, commands, begs, compiled, orig,
                 input, directions, kept, art>>

\* commands[j] raises IndexError.
Crash ==
  /\ rpc = "running"
  /\ ~Fetchable
  /\ rpc' = "crashed"
  /\ UNCHANGED <<loadVars, pc, err, walkVars, commands, begs, compiled, orig,
                 paths, input, j, i, cells, outs, directions, kept, art>>

\* ------------------------------------------------------------------------
\* CarProgram._python_compile and CarProgram._c_compile, and the programs
\* they emit

\* _get_gotos: the arguments of GOTO and IF other than 0.
get_gotos(cmds) ==
  {cmds[k][2] : k \in {n \in 1..Len(cmds) :
                         cmds[n][1] \in {GOTO, IFOP} /\ cmds[n][2] # 0}}

\* j in begs
InBegs(bs, n) == \E k \in 1..Len(bs) : bs[k] = n

\* The lines of an emitted program: the head of a block (`def action_k(i):`
\* in Python, `hbchtposk:` in C), the jump written before a block that is
\* entered from above (`return (action_k, i)`, `goto hbchtposk;`), and the
\* statement of a command.
BlockLine(k) == [kind |-> "block", x |-> NOP, a |-> k]
JumpLine(k) == [kind |-> "jump", x |-> GOTO, a |-> k]
StmtLine(x, a) == [kind |-> "stmt", x |-> x, a |-> a]

\* The loop `for x, a in commands` of both emitters, from command n on.
RECURSIVE BodyLines(_, _, _, _)
BodyLines(cmds, bs, n, last_had_skip) ==
  IF n >= Len(cmds) THEN <<>>
  ELSE LET x == cmds[n + 1][1]
           a == cmds[n + 1][2]
           gotos == get_gotos(cmds)
           head == IF InBegs(bs, n) THEN <<BlockLine(n)>>
                   ELSE IF n \in gotos
                     THEN (IF ~last_had_skip THEN <<JumpLine(n)>> ELSE <<>>)
                          \o <<BlockLine(n)>>
                     ELSE <<>>
           stmt == IF x \in {DECREMENT, INCREMENT, PREV, NEXT, GOTO, IFOP, EXIT}
                   THEN <<StmtLine(x, a)>> ELSE <<>>
           tail == IF x = EXIT /\ ~InBegs(bs, n + 1) /\ (n + 1) \notin gotos
                   THEN <<BlockLine(n + 1)>> ELSE <<>>
       IN head \o stmt \o tail
          \o BodyLines(cmds, bs, n + 1, x \in {GOTO, EXIT})

\* The program _python_compile writes: the functions action_k and the
\* tuple of random.choice.
python_compile(cmds, bs) ==
  [lang |-> "py", lines |-> <<BlockLine(0)>> \o BodyLines(cmds, bs, 0, FALSE),
   begs |-> bs]

\* The program _c_compile writes: the switch over random and the labels.
c_compile(cmds, bs) ==
  [lang |-> "c", lines |-> <<BlockLine(0)>> \o BodyLines(cmds, bs, 0, FALSE),
   begs |-> bs]

\* compile(language='py') or compile(language='c') of a program that has
\* been run in one direction: the emitted program, not yet run.
Emit ==
  /\ pc = "loaded"
  /\ rpc = "done"
  /\ Len(directions) = 1
  /\ kept = <<>>
  /\ art.lang = "none"
  /\ Len(begs) = 3
  /\ \E a \in {python_compile(commands, begs), c_compile(commands, begs)} :
       art' = [a EXCEPT !.begs = begs] @@
              [rpc |-> "idle", err |-> "", pick |-> 0, start |-> 0, pos |-> 0,
               i |-> 0, cells |-> EmptyMap]
  /\ UNCHANGED <<loadVars, pc, err, walkVars, commands, begs, compiled, orig,
                 rpc, paths, input, j, i, cells, outs, directions, kept>>

\* A Python function without a body: `def action_k(i):` followed by
\* another def or by the end of the functions (an IndentationError).
EmptyDef(lines) ==
  \E p \in 1..Len(lines) :
    /\ lines[p].kind = "block"
    /\ (p = Len(lines) \/ lines[p + 1].kind = "block")

\* A C label defined twice.
TwiceLabel(lines) ==
  \E p \in 1..Len(lines), q \in 1..Len(lines) :
    p # q /\ lines[p].kind = "block" /\ lines[q].kind = "block"
    /\ lines[p].a = lines[q].a

\* The line after the head of block k (the last one of that name).
BlockPos(lines, k) ==
  (CHOOSE p \in 1..Len(lines) :
     /\ lines[p].kind = "block" /\ lines[p].a = k
     /\ \A q \in (p + 1)..Len(lines) :
          ~(lines[q].kind = "block" /\ lines[q].a = k)) + 1

\* The block the emitted program starts in for the random value r: the
\* Python wrapper sets action = action_0 and never uses its choice j; the
\* C switch goes to hbchtpos0 or to the label of begs[r - 1].
StartBlock(a, r) ==
  IF a.lang = "py" THEN 0
  ELSE IF r >= 1 /\ r <= Len(a.begs) THEN a.begs[r] ELSE 0

\* The emitted program is run with the input of the interpreter's run:
\* it does not compile, or refuses a negative input, or picks its random
\* value and enters its first block.
ArtifactRun ==
  /\ art.lang # "none"
  /\ art.rpc = "idle"
  /\ \E r \in 0..3 :
       LET start == StartBlock(art, r) IN
       IF (art.lang = "py" /\ EmptyDef(art.lines))
          \/ (art.lang = "c" /\ TwiceLabel(art.lines))
       THEN art' = [art EXCEPT !.rpc = "failed", !.pick = r, !.start = start,
                               !.err = "does not compile"]
       ELSE IF \E k \in 1..Len(input) : input[k] < 0
       THEN art' = [art EXCEPT !.rpc = "failed", !.pick = r, !.start = start,
                               !.err = "input values must be non-negative"]
       ELSE art' = [art EXCEPT !.rpc = "running", !.pick = r, !.start = start,
                               !.pos = BlockPos(art.lines, start),
                               !.i = 0,
                               !.cells = [k \in 0..(Len(input) - 1) |->
                                            input[k + 1]]]
  /\ UNCHANGED <<loadVars, pc, err, walkVars, commands, begs, compiled, orig,
                 rpc, paths, input, j, i, cells, outs, directions, kept>>

\* The emitted program runs off its last line, or (Python) off the end of
\* a function: the function returns None and the loop of run() breaks; C
\* falls through a label to the next line.
AtEnd(a) ==
  \/ a.pos > Len(a.lines)
  \/ a.lang = "py" /\ a.lines[a.pos].kind = "block"

\* One line of the emitted program.
ArtifactStep ==
  /\ art.lang # "none"
  /\ art.rpc = "running"
  /\ IF AtEnd(art) THEN art' = [art EXCEPT !.rpc = "done"]
     ELSE LET l == art.lines[art.pos]
              here == Get(art.cells, art.i)
          IN
       IF l.kind = "block" THEN art' = [art EXCEPT !.pos = @ + 1]
       ELSE IF l.kind = "jump" \/ l.x = GOTO
         THEN art' = [art EXCEPT !.pos = BlockPos(art.lines, l.a)]
       ELSE IF l.x = EXIT THEN art' = [art EXCEPT !.rpc = "done"]
       ELSE IF l.x = IFOP THEN
         art' = [art EXCEPT
                   !.pos = IF here # Get(art.cells, art.i - 1)
                           THEN BlockPos(art.lines, l.a) ELSE art.pos + 1,
                   !.cells = IF art.lang = "py"
                             THEN Put(Put(art.cells, art.i, here),
                                      art.i - 1, Get(art.cells, art.i - 1))
                             ELSE @]
       ELSE IF l.x = DECREMENT THEN
         /\ here - l.a >= 0 - MaxCell
         /\ art' = [art EXCEPT !.pos = @ + 1,
                               !.cells = Put(art.cells, art.i, here - l.a)]
       ELSE IF l.x = INCREMENT THEN
         /\ here + l.a <= MaxCell
         /\ art' = [art EXCEPT !.pos = @ + 1,
                               !.cells = Put(art.cells, art.i, here + l.a)]
       ELSE IF l.x = PREV THEN
         /\ art.i - l.a >= 0 - MaxPtr
         /\ art' = [art EXCEPT !.pos = @ + 1, !.i = @ - l.a]
       ELSE
         /\ art.i + l.a <= MaxPtr
         /\ art' = [art EXCEPT !.pos = @ + 1, !.i = @ + l.a]
  /\ UNCHANGED <<loadVars, pc, err, walkVars, commands, begs, compiled, orig,
                 rpc, paths, input, j, i, cells, outs, directions, kept>>

\* ------------------------------------------------------------------------
\* The programs the model loads

\* The row lengths of the generated boards.
Shapes == {<<2, 2>>, <<3, 2>>, <<2, 3>>, <<3, 3>>}

\* . v ^ < > / # o
TileBytes == {46, 118, 94, 60, 62, 47, 35, 111}
ActBytes == {118, 94, 60, 62, 47}

RECURSIVE Sum(_)
Sum(s) == IF s = <<>> THEN 0 ELSE Head(s) + Sum(Tail(s))

Count(f, S) == Cardinality({k \in DOMAIN f : f[k] \in S})

\* The tiles of a board with one car, one exit and at most MaxActs acting
\* tiles, row after row.
Tilings(n) ==
  {f \in [1..n -> TileBytes] :
     /\ Count(f, {111}) = 1
     /\ Count(f, {35}) = 1
     /\ Count(f, ActBytes) <= MaxActs}

\* The source text of a tiling: its rows, a newline between two.
RECURSIVE Render(_, _, _, _)
Render(shape, f, r, off) ==
  IF r > Len(shape) THEN <<>>
  ELSE (IF r > 1 THEN Newline ELSE <<>>)
       \o [k \in 1..shape[r] |-> f[off + k]]
       \o Render(shape, f, r + 1, off + shape[r])

Sources ==
  UNION {{Render(shape, f, 1, 0) : f \in Tilings(Sum(shape))} : shape \in Shapes}

\* Boards written out, rows separated by |
\* o#
MinimumProgram == <<111, 35>>
\* o# | /.
BranchProgram == <<111, 35, 10, 47, 46>>
\* >v# | ^<o
LoopProgram == <<62, 118, 35, 10, 94, 60, 111>>
\* <#< | /o
FuseProgram == <<60, 35, 60, 10, 47, 111>>
\* vo> | <#
MemProgram == <<118, 111, 62, 10, 60, 35>>
\* ^# | vo
CancelProgram == <<94, 35, 10, 118, 111>>
\* '  o# ; c' | '  /.'
IndentedProgram == <<32, 32, 111, 35, 32, 59, 32, 99, 10, 32, 32, 47, 46>>

\* #./ | ^<o
LeftProgram == <<35, 46, 47, 10, 94, 60, 111>>

\* #o | v/
ExitLastProgram == <<35, 111, 10, 118, 47>>

\* o# | v^ | <^
TwoIncProgram == <<111, 35, 10, 118, 94, 10, 60, 94>>

\* v.. | <.# | ^<o
UndoProgram == <<118, 46, 46, 10, 60, 46, 35, 10, 94, 60, 111>>

\* v.. | <.# | ^.. | ^<o
PartUndoProgram ==
  <<118, 46, 46, 10, 60, 46, 35, 10, 94, 46, 46, 10, 94, 60, 111>>

\* Boards of cars, exits and empty cells only, any number of each: the
\* two-by-two boards and the one-row boards of three cells.
MarkedBoards ==
  {Render(shape, f, 1, 0) :
     shape \in {<<2, 2>>}, f \in [1..4 -> {46, 35, 111}]}
  \cup {Render(<<3>>, f, 1, 0) : f \in [1..3 -> {46, 35, 111}]}

Scenarios ==
  {MinimumProgram, BranchProgram, LoopProgram, FuseProgram, MemProgram,
   CancelProgram, IndentedProgram, LeftProgram, ExitLastProgram,
   TwoIncProgram, UndoProgram, PartUndoProgram}

\* The lines before the board: no directive, one, or both.
Directives ==
  {<<>>, AtIntext \o Newline, AtOuttext \o Newline,
   AtIntext \o Newline \o AtOuttext \o Newline}

FlagSources ==
  {pre \o d : pre \in Directives,
              d \in {BranchProgram, FuseProgram, CancelProgram, IndentedProgram}}

\* Bytecode that no compile() wrote: headers of versions 0, 1 and 2, and
\* after them beginnings and commands of every kind, in and out of range.
Header(version, inbyte, outbyte) ==
  <<1>> \o Magic \o <<version, 2, inbyte, outbyte>>

\* Most commands in a generated stream.
MaxStreamLen == 2

StreamCommand ==
  {<<INCREMENT, 1>>, <<NEXT, 1>>, <<IFOP, 0>>, <<IFOP, MaxStreamLen>>,
   <<GOTO, 1>>, <<EXIT, 0>>, <<NOP, 0>>}

StreamBegs == {<<0, 0, 0>>, <<0, 1, MaxStreamLen>>}

StreamBodies ==
  {PackAll(bs \o Flatten(cmds)) :
     bs \in StreamBegs,
     cmds \in UNION {[1..n -> StreamCommand] : n \in 0..MaxStreamLen}}

\* Bodies that are cut short: two words, four words, and five bytes.
CutBodies ==
  {PackAll(<<0, 0>>), PackAll(<<0, 0, 0, EXIT>>), <<0, 0, 0, 0, 0>>}

Streams ==
  {Header(1, 2, 2) \o b : b \in StreamBodies \cup CutBodies}
  \cup {Header(v, f[1], f[2]) \o PackAll(<<0, 0, 0>> \o Flatten(cmds)) :
          v \in {0, 1, 2},
          f \in {<<1, 1>>, <<1, 2>>, <<2, 1>>},
          cmds \in {<<<<EXIT, 0>>>>, <<<<GOTO, 1>>>>}}

InitWith(d, iat, oat) ==
  /\ data = d
  /\ inputastext = iat
  /\ outputastext = oat
  /\ metadata = [inputastext |-> FALSE, outputastext |-> FALSE]
  /\ pc = "start"
  /\ err = ""
  /\ board = <<>>
  /\ car_start_pos = <<0, 0>>
  /\ commands = <<>>
  /\ begs = <<>>
  /\ xys = <<>>
  /\ pos_ids = EmptyMap
  /\ stack = <<>>
  /\ compiled = <<>>
  /\ orig = <<>>
  /\ rpc = "idle"
  /\ paths = <<>>
  /\ input = <<>>
  /\ j = 0
  /\ i = 0
  /\ cells = EmptyMap
  /\ outs = <<>>
  /\ directions = <<>>
  /\ kept = <<>>
  /\ art = NoArtifact

Init ==
  \/ \E d \in Sources \cup Scenarios \cup MarkedBoards \cup {<<>>} :
       InitWith(d, "None", "None")
  \/ \E d \in FlagSources, iat \in FlagValues, oat \in FlagValues :
       InitWith(d, iat, oat)
  \/ \E d \in Streams, f \in {<<"None", "None">>, <<"False", "True">>} :
       InitWith(d, f[1], f[2])

Walk ==
  \/ Advance \/ Ignore \/ EmitExit \/ Fuse \/ Cancel \/ Join \/ InfiniteLoop
  \/ EmitMem \/ EmitIf \/ Return \/ NextPath \/ Finish

Load == LoadNothing \/ LoadSource \/ LoadBytecode

Interpret == Run \/ RunAll \/ Step \/ Exit \/ Crash

Next == Load \/ Walk \/ Compile \/ Reload \/ Interpret

Spec == Init /\ [][Next]_vars

\* The written-out boards alone, loaded and run. _board_to_commands is
\* straight-line code: a step of the walk that can be taken is taken.
LiveInit == \E d \in Scenarios : InitWith(d, "None", "None")

LiveNext == LoadSource \/ Walk \/ Run \/ RunAll \/ Step \/ Exit

LiveSpec == LiveInit /\ [][LiveNext]_vars /\ WF_vars(Walk)

\* Programs from source, run twice with the same input.
AgainInit == \E d \in Scenarios : InitWith(d, "None", "None")

AgainNext ==
  LoadSource \/ Walk \/ Run \/ RunRandom \/ RunAll \/ RunAgain \/ Step \/ Exit

AgainSpec == AgainInit /\ [][AgainNext]_vars

\* Programs from source, run in one direction by the interpreter and then
\* emitted as Python or C and run with the same input.
EmitNext ==
  LoadSource \/ Walk \/ Run \/ Step \/ Exit \/ Emit \/ ArtifactRun \/ ArtifactStep

EmitSpec == AgainInit /\ [][EmitNext]_vars

\* The same over the boards of more than one row.
TallInit == \E d \in Scenarios \ {MinimumProgram} : InitWith(d, "None", "None")

TallSpec == TallInit /\ [][LiveNext]_vars /\ WF_vars(Walk)

\* ------------------------------------------------------------------------
\* Properties

\* The program in hand was lowered from source text / read from bytecode.
FromSource == data # <<>> /\ ~compcond(data)
FromBytecode == data # <<>> /\ compcond(data)

\* The walker follows a fusion no further: the count is at the model's bound.
CountCapped ==
  /\ Walking
  /\ IsSame(NewAction)
  /\ PrevCommand[2] >= MaxCount

\* C1: lowering always finishes: the walk of a board with one car and one
\* exit, once begun, ends with the program or with an error (or, in the
\* model, with a fusion count at its bound).
C1_LoweringFinishes ==
  (pc = "walk") ~> (pc \in {"loaded", "error"} \/ CountCapped)

\* C2: the source `o#` loads, and a run of it from any direction returns
\* the empty result.
C2_MinimumProgramLoads ==
  /\ (data = MinimumProgram /\ pc = "walk") ~> (pc = "loaded")
  /\ [](data = MinimumProgram /\ rpc = "done" => \A k \in 1..Len(outs) : outs[k] = <<>>)

\* C3: in the commands the walker returns, the argument of every IF and
\* GOTO is an index of the list, and no temporary command is left.
C3_TargetsInRange ==
  (FromSource /\ pc = "loaded") =>
    \A k \in 1..Len(commands) :
      /\ commands[k][1] \in {DECREMENT, INCREMENT, PREV, NEXT, IFOP, GOTO, EXIT}
      /\ commands[k][1] \in {IFOP, GOTO} =>
           (commands[k][2] >= 0 /\ commands[k][2] < Len(commands))

\* A program from source whose last path ends right after an If's branch:
\* an IF points at the last command, and a GOTO is among the commands.
C3_Witness ==
  /\ FromSource
  /\ pc = "loaded"
  /\ \E k \in 1..Len(commands) :
       commands[k] = <<IFOP, Len(commands) - 1>>
  /\ \E k \in 1..Len(commands) : commands[k][1] = GOTO

\* C4: a run of a program lowered from source never has j outside the
\* command list: no fetch fails.
C4_PointerInRange ==
  FromSource =>
    /\ rpc # "crashed"
    /\ rpc = "running" => (j >= 0 /\ j < Len(commands))

\* A run from source that took the jump of an IF to the last command.
C4_Witness ==
  /\ FromSource
  /\ rpc = "running"
  /\ j = Len(commands) - 1
  /\ \E k \in 1..Len(commands) : commands[k] = <<IFOP, j>>
  /\ DOMAIN cells # {}
  /\ Get(cells, i) # Get(cells, i - 1)

\* C5: the bytecode of a program from source, loaded again with no flag
\* given, has the same commands and beginnings, and flags of the same truth.
C5_RoundTrip ==
  (orig # <<>> /\ ~compcond(orig[1].data) /\ pc = "loaded") =>
    /\ commands = orig[1].commands
    /\ begs = orig[1].begs
    /\ Truthy(inputastext) = Truthy(orig[1].inputastext)
    /\ Truthy(outputastext) = Truthy(orig[1].outputastext)

\* C6: bytes 8 and 9 of the bytecode written are 1 exactly when the
\* program's inputastext and outputastext are true, and 2 otherwise.
C6_HeaderFlags ==
  compiled # <<>> =>
    /\ compiled[9] = (IF Truthy(inputastext) THEN 1 ELSE 2)
    /\ compiled[10] = (IF Truthy(outputastext) THEN 1 ELSE 2)

\* Some line of the data begins with the directive.
HasLine(d, directive) ==
  \E k \in 1..Len(Split(d)) : StartsWith(Split(d)[k], directive)

\* C7: loading source keeps a flag the caller set; a flag the caller left
\* None becomes true exactly when a line begins with its directive.
C7_FlagPrecedence ==
  [][LoadSource =>
       /\ inputastext # "None" => inputastext' = inputastext
       /\ inputastext = "None" =>
            (Truthy(inputastext') <=> HasLine(data, AtIntext))
       /\ outputastext # "None" => outputastext' = outputastext
       /\ outputastext = "None" =>
            (Truthy(outputastext') <=> HasLine(data, AtOuttext))]_vars

\* Source with both directives was loaded, the caller having said False for
\* the input and nothing for the output: the first stays False, the second
\* is True.
C7_Witness ==
  /\ FromSource
  /\ pc # "start"
  /\ HasLine(data, AtIntext)
  /\ HasLine(data, AtOuttext)
  /\ inputastext = "False"
  /\ outputastext = "True"

\* The commands a stream holds, and whether it is whole: ten bytes of
\* header, then 32-bit words, three of them and then pairs.
Decoded(d) == PairUp(Words(SubSeq(d, 11, Len(d))))
Whole(d) ==
  /\ Len(d) >= 10
  /\ (Len(d) - 10) % 4 = 0
  /\ ((Len(d) - 10) \div 4 <= 3 \/ ((Len(d) - 10) \div 4 - 3) % 2 = 0)
BadTarget(cmds) ==
  \E k \in 1..Len(cmds) :
    cmds[k][1] \in {IFOP, GOTO} /\ ~(cmds[k][2] \in 0..(Len(cmds) - 1))

\* C8: a stream is accepted only with every IF and GOTO argument in [0, N);
\* a stream of whole commands with such an argument >= N is rejected, and
\* where the version byte passes the version test the error is 'code
\* position out of scope'.
C8_DecoderValidates ==
  (FromBytecode /\ pc # "start") =>
    /\ pc = "loaded" => ~BadTarget(commands)
    /\ (Whole(data) /\ BadTarget(Decoded(data))) => pc = "error"
    /\ (data[7] <= 1 /\ Whole(data) /\ BadTarget(Decoded(data))) =>
         err = "code position out of scope"

\* A stream of an accepted version whose only bad argument equals N.
C8_Witness ==
  /\ FromBytecode
  /\ pc = "error"
  /\ err = "code position out of scope"
  /\ Whole(data)
  /\ \E k \in 1..Len(Decoded(data)) :
       Decoded(data)[k][1] = GOTO /\ Decoded(data)[k][2] = Len(Decoded(data))

\* C9: a run of a program that load_data accepted from bytecode never
\* fetches a command outside the list.
C9_AcceptedStreamRuns == FromBytecode => rpc # "crashed"

\* C10: a stream whose version byte is not 1 is rejected with 'only version
\* 1 is supported'.
C10_VersionGate ==
  (FromBytecode /\ pc # "start" /\ data[7] # 1) =>
    (pc = "error" /\ err = "only version 1 is supported")

\* The interpreter is about to execute the command at j.
AtCommand(op) == rpc = "running" /\ Fetchable /\ Op = op

\* The tape reads the same before and after the step, except at the cells
\* of `but` (absent cells read as 0).
SameTapeBut(but) ==
  \A k \in (DOMAIN cells \cup DOMAIN cells') \ but :
    Get(cells', k) = Get(cells, k)

\* C11: the step of an IF goes to its argument if tape[i] # tape[i-1] and
\* to j + 1 otherwise, and leaves the pointer and every tape value as they
\* were.
C11_IfStep ==
  [][AtCommand(IFOP) =>
       /\ rpc' = "running"
       /\ j' = (IF Get(cells, i) # Get(cells, i - 1) THEN Arg ELSE j + 1)
       /\ i' = i
       /\ SameTapeBut({})]_vars

\* An IF has just fallen through: the command before j is an IF that
\* points elsewhere, it read tape[i-1], and the two cells are equal.
C11_Witness ==
  /\ rpc = "running"
  /\ j >= 1
  /\ j <= Len(commands)
  /\ commands[j][1] = IFOP
  /\ commands[j][2] # j
  /\ (i - 1) \in DOMAIN cells
  /\ Get(cells, i) = Get(cells, i - 1)

\* C12: DECREMENT and INCREMENT change tape[i] by -a and +a and nothing
\* else, PREV and NEXT change i by -a and +a and nothing else, each of the
\* four moves j to j + 1, and GOTO changes only j, to its argument.
C12_MemorySteps ==
  [][/\ AtCommand(DECREMENT) =>
          /\ Get(cells', i) = Get(cells, i) - Arg
          /\ SameTapeBut({i}) /\ i' = i /\ j' = j + 1
     /\ AtCommand(INCREMENT) =>
          /\ Get(cells', i) = Get(cells, i) + Arg
          /\ SameTapeBut({i}) /\ i' = i /\ j' = j + 1
     /\ AtCommand(PREV) =>
          /\ i' = i - Arg /\ SameTapeBut({}) /\ j' = j + 1
     /\ AtCommand(NEXT) =>
          /\ i' = i + Arg /\ SameTapeBut({}) /\ j' = j + 1
     /\ AtCommand(GOTO) =>
          /\ j' = Arg /\ i' = i /\ cells' = cells
     /\ (rpc = "running" /\ Fetchable /\ Op # EXIT) =>
          /\ rpc' = "running"
          /\ UNCHANGED <<commands, begs, input, paths, outs>>]_vars

\* A fused PREV has just run from the pointer's start: the pointer is at
\* minus the command's count, which is more than 1.
C12_Witness ==
  /\ rpc = "running"
  /\ j >= 1
  /\ j <= Len(commands)
  /\ commands[j][1] = PREV
  /\ commands[j][2] > 1
  /\ i = 0 - commands[j][2]

\* The pairs of a result are in strictly ascending order of index.
Ascending(out) ==
  \A a \in 1..Len(out), b \in 1..Len(out) : a < b => out[a][1] < out[b][1]

\* C13: the result of a run is the pairs (index, value) of the final tape
\* whose value is not 0, each once, in strictly ascending order of index.
C13_Result ==
  rpc = "done" =>
    LET out == Last(outs) IN
      /\ Ascending(out)
      /\ \A a \in 1..Len(out) :
           out[a][2] # 0 /\ out[a][2] = Get(cells, out[a][1])
      /\ \A k \in DOMAIN cells :
           cells[k] # 0 => \E a \in 1..Len(out) : out[a] = <<k, cells[k]>>

\* A run that ended with a cell left of 0 and a cell right of it not zero,
\* the negative index first, and with a zero cell on the tape.
C13_Witness ==
  /\ rpc = "done"
  /\ Len(Last(outs)) >= 2
  /\ Last(outs)[1][1] < 0
  /\ Last(outs)[Len(Last(outs))][1] >= 0
  /\ \E k \in DOMAIN cells : cells[k] = 0
\* A call of run() begins.
CallBegins == rpc \in {"idle", "done"} /\ rpc' \notin {"idle", "done"}

\* C14: two runs of the same program with the same input and the same
\* direction given return the same result, and a call that is given
\* directions interprets the paths of those directions and no other.
C14_DirectionDeterminism ==
  /\ [](  (rpc = "done" /\ kept # <<>> /\ Len(directions) = 1
           /\ kept[1].directions = directions)
        => outs = kept[1].outs)
  /\ [][(CallBegins /\ directions' # <<>>) =>
          paths' = [k \in 1..Len(directions') |->
                      direction_to_path_map(directions'[k])]]_vars

\* The same direction was run twice and the result has a cell in it.
C14_Witness ==
  /\ rpc = "done"
  /\ kept # <<>>
  /\ Len(directions) = 1
  /\ kept[1].directions = directions
  /\ outs # <<<<>>>>

\* The cells _interpret starts from: the input at 0..k-1 and nothing else.
FreshTape == [k \in 0..(Len(input') - 1) |-> input'[k + 1]]

\* C15: bruterun interprets Up, Right, Down, Left in this order, each from
\* j = 0 or its beginning, i = 0 and a fresh tape of the input; its k-th
\* result is the result of a run of that direction alone on the same input
\* (whichever call came first); running changes neither the commands nor
\* their beginnings.
C15_RunAll ==
  /\ [][(CallBegins /\ directions' = valid_directions) =>
          paths' = <<0, 1, 2, 3>>]_vars
  /\ [][(paths' # paths /\ rpc' = "running") =>
          /\ j' = (IF paths'[1] = 0 THEN 0 ELSE begs[paths'[1]])
          /\ i' = 0
          /\ cells' = FreshTape]_vars
  /\ [](  (rpc = "done" /\ kept # <<>> /\ Len(kept[1].outs) = 4
           /\ Len(directions) = 1)
        => outs[1] = kept[1].outs[direction_to_path_map(directions[1]) + 1])
  /\ [](  (rpc = "done" /\ kept # <<>> /\ Len(kept[1].directions) = 1
           /\ Len(outs) = 4)
        => outs[direction_to_path_map(kept[1].directions[1]) + 1]
             = kept[1].outs[1])
  /\ [][rpc' # "idle" => UNCHANGED <<commands, begs>>]_vars

\* All four directions were run, then Left alone: the results of Up and
\* of Left differ, and Left's is the fourth.
C15_Witness ==
  /\ rpc = "done"
  /\ kept # <<>>
  /\ Len(kept[1].outs) = 4
  /\ directions = <<LEFT>>
  /\ kept[1].outs[1] # kept[1].outs[4]
  /\ outs[1] = kept[1].outs[4]
\* C16: a run whose input holds a negative value executes no command and
\* returns no result.
C16_NegativeInput ==
  (\E k \in 1..Len(input) : input[k] < 0) => rpc \notin {"running", "done"}

\* The data is a board and nothing else: tiles and newlines.
PlainBoard(d) == \A k \in 1..Len(d) : d[k] \in TileBytes \cup {10}
Cars(d) == Cardinality({k \in 1..Len(d) : d[k] = 111})
Exits(d) == Cardinality({k \in 1..Len(d) : d[k] = 35})

\* C17: the walk of a board begins only if the board has exactly one car
\* and exactly one exit; any other board fails with the error of one of its
\* defects (a second car, a second exit, no car, no exit), with no command
\* emitted and no path begun.
C17_OneCarOneExit ==
  (FromSource /\ PlainBoard(data) /\ pc # "start") =>
    /\ pc # "error" => (Cars(data) = 1 /\ Exits(data) = 1)
    /\ (Cars(data) # 1 \/ Exits(data) # 1) =>
         /\ pc = "error"
         /\ commands = <<>> /\ begs = <<>> /\ stack = <<>> /\ board = <<>>
         /\ \/ err = "program can only have one car" /\ Cars(data) >= 2
            \/ err = "program can only have one exit" /\ Exits(data) >= 2
            \/ err = "program must have one car" /\ Cars(data) = 0
            \/ err = "program must have one exit" /\ Exits(data) = 0

\* A board with one car and two exits was rejected for its second exit.
C17_Witness ==
  /\ FromSource
  /\ PlainBoard(data)
  /\ Cars(data) = 1
  /\ Exits(data) = 2
  /\ pc = "error"
  /\ err = "program can only have one exit"
\* The emitted program has started (or failed to).
Started == art.lang # "none" /\ art.rpc # "idle"

\* The beginning of path r: 0 for Up, the entry of the table otherwise.
EntryOf(r) == IF r = 0 THEN 0 ELSE begs[r]

\* C18: the emitted program starts in the block of the entry its random
\* value picks: block 0 for 0, the block of begs[r - 1] for r in 1..3.
C18_EmittedDispatch ==
  (Started /\ art.rpc # "failed") => art.start = EntryOf(art.pick)

\* C19: started at the entry of the direction the interpreter ran, on the
\* same non-negative input, the emitted program ends with the non-zero
\* cells of the interpreter's result.
C19_EmitterEquivalence ==
  (/\ Started /\ art.rpc \in {"done", "failed"}
   /\ rpc = "done"
   /\ \A k \in 1..Len(input) : input[k] >= 0
   /\ art.start = EntryOf(direction_to_path_map(directions[1])))
  => (art.rpc = "done" /\ Result(art.cells) = outs[1])
\* The command executed after command k when no If is executed: the next
\* one after a memory instruction, the target of a Goto, and none (-1)
\* after an If, an Exit or the last command.
PureNext(cmds, k) ==
  IF k < 0 \/ k >= Len(cmds) THEN 0 - 1
  ELSE IF cmds[k + 1][1] = GOTO THEN cmds[k + 1][2]
  ELSE IF cmds[k + 1][1] \in base_mem_ops \cup {NOP} THEN k + 1
  ELSE 0 - 1

RECURSIVE PureWalk(_, _, _)
PureWalk(cmds, k, n) ==
  IF n = 0 \/ k < 0 THEN k ELSE PureWalk(cmds, PureNext(cmds, k), n - 1)

\* Some command starts a run of memory instructions and Gotos that never
\* ends: after as many steps as there are commands it has met one twice.
PureCycle(cmds) ==
  \E k \in 0..(Len(cmds) - 1) : PureWalk(cmds, k, Len(cmds) + 1) >= 0

\* C20: the commands the walker has written for a board, while it walks
\* and once the program is loaded, have no cycle of memory instructions
\* and Gotos only: the join that would close one raises
\* 'infinite loop present' instead of writing its Goto.
C20_NoPureCycle == FromSource => ~PureCycle(commands)

\* A loaded program whose Goto closes a cycle through an If.
C20_Witness ==
  /\ FromSource /\ pc = "loaded"
  /\ \E k \in 1..Len(commands) :
       /\ commands[k][1] = GOTO
       /\ commands[k][2] < k
       /\ \E n \in (commands[k][2] + 1)..k : commands[n][1] = IFOP
\* C21 as first stated: no two adjacent commands of a program
\* loaded from a board have equal operations, and no memory operation is
\* next to its complement.
C21_NoEqualNeighbours ==
  (FromSource /\ pc = "loaded") =>
    \A k \in 1..(Len(commands) - 1) :
      /\ commands[k][1] # commands[k + 1][1]
      /\ commands[k][1] \in base_mem_ops =>
           commands[k + 1][1] # compl_action_map(commands[k][1])

\* C21: in the commands the walker has written for a board, while it walks
\* and once the program is loaded, no memory command is followed by a
\* command of the same operation or of the complementary one. (Two Gotos
\* or two Exits do follow each other, where one path ends and the next is
\* one command long.)
C21_Peephole ==
  FromSource =>
    \A k \in 1..(Len(commands) - 1) :
      commands[k][1] \in base_mem_ops =>
        /\ commands[k + 1][1] # commands[k][1]
        /\ commands[k + 1][1] # compl_action_map(commands[k][1])

\* A loaded program with a memory command after a memory command.
C21_Witness ==
  /\ FromSource /\ pc = "loaded"
  /\ \E k \in 1..(Len(commands) - 1) :
       commands[k][1] \in base_mem_ops /\ commands[k + 1][1] \in base_mem_ops
\* The lowering of a board is under way after its first path began.
Lowering == FromSource /\ pc \in {"walk", "ret"} /\ Len(begs) > 0

\* C22: each beginning is the length of the command list when its walk
\* began, so a loaded program has 0 < begs[0] < begs[1] < begs[2] < N; and
\* a walk leaves every command below its own beginning as it was.
C22_EntryTable ==
  /\ [](FromSource /\ pc = "loaded" =>
          /\ Len(begs) = 3
          /\ 0 < begs[1] /\ begs[1] < begs[2] /\ begs[2] < begs[3]
          /\ begs[3] < Len(commands))
  /\ [][Lowering /\ Len(begs') > Len(begs) =>
          begs' = Append(begs, Len(commands)) /\ commands' = commands]_vars
  /\ [][Lowering =>
          /\ Len(commands') >= Last(begs)
          /\ SubSeq(commands', 1, Last(begs)) =
               SubSeq(commands, 1, Last(begs))]_vars

\* A loaded program whose Up and Right walks wrote more than one command
\* each.
C22_Witness ==
  /\ FromSource /\ pc = "loaded"
  /\ begs[1] > 1
  /\ begs[2] > begs[1] + 1
\* The four paths of a loaded program: the index of the first command of
\* path n (0 for Up) and of its last.
PathBegin(n) == IF n = 0 THEN 0 ELSE begs[n]
PathEnd(n) == IF n = 3 THEN Len(commands) - 1 ELSE begs[n + 1] - 1
PathLast(n) == commands[PathEnd(n) + 1]

\* C23 as first stated: the last command of every path is an Exit,
\* or a Goto into another path.
C23_PathsLeaveByExit ==
  (FromSource /\ pc = "loaded") =>
    \A n \in 0..3 :
      \/ PathLast(n)[1] = EXIT
      \/ /\ PathLast(n)[1] = GOTO
         /\ PathLast(n)[2] \notin PathBegin(n)..PathEnd(n)

\* C23: the last command of every path of a program loaded from a board
\* (the command before each beginning, and the last of the list) is an
\* Exit or a Goto, and the Goto goes back to a command already written, of
\* an earlier path or of its own.
C23_PathEnds ==
  (FromSource /\ pc = "loaded") =>
    \A n \in 0..3 :
      \/ PathLast(n)[1] = EXIT
      \/ PathLast(n)[1] = GOTO /\ PathLast(n)[2] < PathEnd(n)

\* A loaded program with a path that ends at an Exit, one that ends at a
\* Goto into an earlier path, and one that ends at a Goto into itself.
C23_Witness ==
  /\ FromSource /\ pc = "loaded"
  /\ \E n \in 0..3 : PathLast(n)[1] = EXIT
  /\ \E n \in 1..3 : PathLast(n)[1] = GOTO /\ PathLast(n)[2] < PathBegin(n)
  /\ \E n \in 0..3 : PathLast(n)[1] = GOTO /\ PathLast(n)[2] >= PathBegin(n)
\* The walker's next step arrives at a tile that acts (a memory action or
\* an If) and whose coordinate has an entry in pos_ids.
ArrivesAtRecorded ==
  /\ FromSource /\ Walking
  /\ NewAction \in base_mem_ops \cup {IFOP}
  /\ NewPos \in DOMAIN pos_ids

\* The arrival is neither folded into the last command nor cancelled
\* against it.
NotFolded ==
  NewAction \in base_mem_ops =>
    /\ PrevCommand[1] # NewAction
    /\ PrevCommand[1] # compl_action_map(NewAction)

\* The join would close a cycle without an IF inside the current walk.
ClosesPureCycle ==
  /\ pos_ids[NewPos] >= Top.begin_pos
  /\ \A k \in (pos_ids[NewPos] + 1)..Len(commands) : commands[k][1] # IFOP

\* The step wrote (GOTO, pos_ids[(x, y)]) and nothing else, and the walk
\* returned.
WroteGoto ==
  /\ commands' = Append(commands, <<GOTO, pos_ids[NewPos]>>)
  /\ pc' = "ret"
  /\ UNCHANGED <<pos_ids, xys, begs>>

IgnoredTile(p, direc) ==
  \/ p = DECREMENT /\ direc = LEFT
  \/ p = INCREMENT /\ direc = RIGHT
  \/ p = PREV /\ direc = UP
  \/ p = NEXT /\ direc = DOWN

\* C25: a step onto a redirector that the direction ignores changes no
\* command, no pos_ids entry, no xys entry and no beginning; the car is on
\* the tile with its direction unchanged and the walk goes on.
C25_IgnoredRedirectors ==
  [][(FromSource /\ Walking /\ IgnoredTile(NewTile, Top.direc)) =>
       /\ UNCHANGED <<commands, pos_ids, xys, begs, pc, err>>
       /\ stack' = SetTop([Top EXCEPT !.x = NewPos[1], !.y = NewPos[2]])]_vars

\* The car stands on a redirector it has just ignored.
C25_Witness ==
  /\ FromSource /\ Walking
  /\ IgnoredTile(TileAt(Top.x, Top.y), Top.direc)
\* The walker's next step classifies a memory action that repeats the
\* operation of the last command.
RepeatsLast ==
  /\ FromSource /\ Walking
  /\ NewAction \in base_mem_ops
  /\ PrevCommand[1] = NewAction

\* C26: a memory action A met when the last command is (A, n) makes that
\* command (A, n + 1): the list keeps its length and its other commands,
\* pos_ids and xys are unchanged, and the direction is the one A forces.
\* The two ^ of the board o# | v^ | <^, met one after the other, are the
\* single command (INCREMENT, 2).
C26_Fusion ==
  /\ [][RepeatsLast =>
          /\ Len(commands') = Len(commands)
          /\ commands' = [commands EXCEPT
                            ![Len(commands)] = <<NewAction, PrevCommand[2] + 1>>]
          /\ UNCHANGED <<pos_ids, xys, begs, pc>>
          /\ stack' = SetTop([Top EXCEPT !.x = NewPos[1], !.y = NewPos[2],
                                         !.direc = ops_to_dirs_map(NewAction)])
     ]_vars
  /\ []((data = TwoIncProgram /\ pc = "loaded") =>
          /\ \E k \in 1..Len(commands) : commands[k] = <<INCREMENT, 2>>
          /\ \A k \in 1..Len(commands) :
               commands[k][1] = INCREMENT => commands[k][2] = 2)

\* The two ^ have been walked: the car is on the second and the last
\* command counts both.
C26_Witness ==
  /\ data = TwoIncProgram /\ Walking
  /\ Top.x = 1 /\ Top.y = 1 /\ Top.direc = UP
  /\ Last(commands) = <<INCREMENT, 2>>
\* The walker's next step classifies a memory action that undoes the
\* operation of the last command.
UndoesLast ==
  /\ FromSource /\ Walking
  /\ NewAction \in base_mem_ops
  /\ PrevCommand[1] = compl_action_map(NewAction)

\* pos_ids without the coordinate recorded for command number n.
WithoutEntryOf(n) ==
  [k \in {c \in DOMAIN pos_ids : pos_ids[c] # n} |-> pos_ids[k]]

\* C27: a memory action A met when the last command is (complement of A, n)
\* writes nothing for A: for n > 1 the command becomes (complement, n - 1)
\* and pos_ids and xys keep their entries; for n = 1 the command is
\* removed with the one pos_ids entry recorded for it and the top of xys.
\* The direction is the one A forces. On the board v.. | <.# | ^<o the
\* Right walk meets ^ and then v, and the loaded program has neither an
\* INCREMENT nor a DECREMENT; on v.. | <.# | ^.. | ^<o it meets ^, ^ and
\* then v, and the loaded program has (INCREMENT, 1) and no DECREMENT.
C27_Cancellation ==
  /\ [][UndoesLast =>
          /\ IF PrevCommand[2] > 1
             THEN /\ commands' = [commands EXCEPT ![Len(commands)] =
                                    <<PrevCommand[1], PrevCommand[2] - 1>>]
                  /\ UNCHANGED <<pos_ids, xys>>
             ELSE /\ commands' = SubSeq(commands, 1, Len(commands) - 1)
                  /\ \E c \in DOMAIN pos_ids : pos_ids[c] = Len(commands) - 1
                  /\ pos_ids' = WithoutEntryOf(Len(commands) - 1)
                  /\ xys' = SubSeq(xys, 1, Len(xys) - 1)
          /\ UNCHANGED <<begs, pc, err>>
          /\ stack' = SetTop([Top EXCEPT !.x = NewPos[1], !.y = NewPos[2],
                                         !.direc = ops_to_dirs_map(NewAction)])
     ]_vars
  /\ []((data = UndoProgram /\ pc = "loaded") =>
          \A k \in 1..Len(commands) :
            commands[k][1] \notin {INCREMENT, DECREMENT})
  /\ []((data = PartUndoProgram /\ pc = "loaded") =>
          /\ \E k \in 1..Len(commands) : commands[k] = <<INCREMENT, 1>>
          /\ \A k \in 1..Len(commands) :
               /\ commands[k][1] # DECREMENT
               /\ commands[k][1] = INCREMENT => commands[k][2] = 1)

\* On that board the v has just cancelled the ^: the car is on the v, going
\* Down, and the INCREMENT is gone from the list and from pos_ids.
C27_Witness ==
  /\ data = UndoProgram /\ Walking
  /\ Top.x = 0 /\ Top.y = 0 /\ Top.direc = DOWN
  /\ Last(commands) = <<PREV, 1>>
  /\ <<0, 2>> \notin DOMAIN pos_ids
\* The walker's next step classifies an If at a coordinate without an
\* entry in pos_ids.
MeetsNewIf ==
  /\ FromSource /\ Walking
  /\ NewTile = IFOP
  /\ NewPos \notin DOMAIN pos_ids

\* The walk of a branch has ended and its caller waits at the If.
BranchReturns == FromSource /\ pc = "ret" /\ Len(stack) > 1

\* The direction to the right of direc.
RightOf(direc) ==
  IF direc = UP THEN RIGHT ELSE IF direc = RIGHT THEN DOWN
  ELSE IF direc = DOWN THEN LEFT ELSE UP

\* C28: an If at a new coordinate takes the slot cid = len(commands) and
\* the branch is walked from the tile to the right of the direction D of
\* the car; while the branch is walked the slot and the commands below it
\* stay as they are; when it returns with a = len(commands), a > cid + 1,
\* command a - 1 is an EXIT or a GOTO, the slot becomes (IF, a) and nothing
\* else changes, and the caller goes on from the tile with direction D, so
\* that its next command has index a. In a loaded program the command
\* before the target of every IF is an EXIT or a GOTO.
C28_IfLowering ==
  /\ [][MeetsNewIf =>
          /\ commands' = Append(commands, <<None, None>>)
          /\ Len(stack') = Len(stack) + 1
          /\ stack'[Len(stack)] =
               [Top EXCEPT !.x = NewPos[1], !.y = NewPos[2],
                           !.cid = Len(commands)]
          /\ stack'[Len(stack')].x = NewPos[1]
          /\ stack'[Len(stack')].y = NewPos[2]
          /\ stack'[Len(stack')].direc = RightOf(Top.direc)
          /\ stack'[Len(stack')].begin_pos = Len(commands) + 1
     ]_vars
  /\ [][(FromSource /\ pc \in {"walk", "ret"} /\ Len(stack) > 1
         /\ Len(stack') >= Len(stack)) =>
          /\ Len(commands') >= Top.begin_pos
          /\ SubSeq(commands', 1, Top.begin_pos) =
               SubSeq(commands, 1, Top.begin_pos)
     ]_vars
  /\ [][BranchReturns =>
          LET caller == stack[Len(stack) - 1]
              a == Len(commands)
          IN /\ Top.begin_pos = caller.cid + 1
             /\ a > caller.cid + 1
             /\ commands[caller.cid + 1] = <<None, None>>
             /\ commands[a][1] \in {EXIT, GOTO}
             /\ commands' = [commands EXCEPT ![caller.cid + 1] = <<IFOP, a>>]
             /\ Len(stack') = Len(stack) - 1
             /\ stack'[Len(stack')] = [caller EXCEPT !.cid = None]
             /\ TileAt(caller.x, caller.y) = IFOP
             /\ pos_ids[<<caller.x, caller.y>>] = caller.cid
             /\ pc' = "walk"
             /\ UNCHANGED <<pos_ids, xys, begs>>
     ]_vars
  /\ []((FromSource /\ pc = "loaded") =>
          \A k \in 1..Len(commands) :
            commands[k][1] = IFOP =>
              /\ commands[k][2] > k
              /\ commands[k][2] < Len(commands)
              /\ commands[commands[k][2]][1] \in {EXIT, GOTO})

\* The branch of an If has just returned: the caller stands on the If
\* tile, whose slot holds (IF, len(commands)), and the branch wrote more
\* than one command.
C28_Witness ==
  /\ FromSource /\ Walking
  /\ TileAt(Top.x, Top.y) = IFOP
  /\ <<Top.x, Top.y>> \in DOMAIN pos_ids
  /\ commands[pos_ids[<<Top.x, Top.y>>] + 1] = <<IFOP, Len(commands)>>
  /\ Len(commands) > pos_ids[<<Top.x, Top.y>>] + 2
\* The length of row y of the board.
RowLen(y) == Len(board[y + 1])

\* The coordinate is a tile of the board.
OnBoard(x, y) == y >= 0 /\ y < Len(board) /\ x >= 0 /\ x < RowLen(y)

\* C29: a step of the walker moves the car by one tile: Up and Down change
\* y only, to y - 1 or y + 1 modulo the height; Left and Right change x
\* only, to x - 1 or x + 1 modulo the length of the row the car is in. A
\* position at or past the end of its row is empty: the step that reaches
\* it writes nothing and keeps the direction. So y is a row and x is not
\* negative in every activation, and every coordinate recorded for a
\* command is a tile of the board.
C29_Advance ==
  /\ [][(FromSource /\ Walking) =>
          LET f == stack'[Len(stack)] IN
          /\ Top.direc = UP => f.x = Top.x /\ f.y = (Top.y - 1) % Len(board)
          /\ Top.direc = DOWN => f.x = Top.x /\ f.y = (Top.y + 1) % Len(board)
          /\ Top.direc = RIGHT =>
               f.y = Top.y /\ f.x = (Top.x + 1) % RowLen(Top.y)
          /\ Top.direc = LEFT =>
               f.y = Top.y /\ f.x = (Top.x - 1) % RowLen(Top.y)
          /\ f.x >= RowLen(f.y) =>
               /\ f.direc = Top.direc
               /\ UNCHANGED <<commands, pos_ids, xys, begs, pc, err>>
          /\ commands' # commands => OnBoard(f.x, f.y)
     ]_vars
  /\ []((FromSource /\ pc \in {"walk", "ret"}) =>
          /\ \A n \in 1..Len(stack) :
               /\ stack[n].y >= 0 /\ stack[n].y < Len(board)
               /\ stack[n].x >= 0
          /\ \A c \in DOMAIN pos_ids : OnBoard(c[1], c[2]))

\* The car is past the end of a row shorter than the one it came from.
C29_Witness ==
  /\ FromSource /\ Walking
  /\ Top.x >= RowLen(Top.y)
  /\ Len(commands) > 0
\* A program loaded from the bytes compile() wrote for a program loaded
\* from a board has been compiled in its turn.
Reemitted ==
  /\ orig # <<>>
  /\ ~compcond(orig[1].data)
  /\ pc = "loaded"
  /\ compiled # <<>>

\* C30: the bytes compile() writes for the program loaded from the bytes
\* of a program from source are those bytes, the two flag bytes of the
\* header included.
C30_ReemissionStable == Reemitted => compiled = orig[1].compiled
\* The coordinates on the xys stack, above its sentinel.
Pushed == {xys[n] : n \in 2..Len(xys)}

\* C31: while a board is lowered, the keys of pos_ids are the coordinates
\* on xys above the sentinel, each once; the values of pos_ids are distinct
\* indices of the command list, each of a memory command or of an If (or
\* its temporary command); when the last command is a memory command the
\* top of xys is the coordinate recorded for it; and every GOTO goes to an
\* index that still has its pos_ids entry. A step that removes a command
\* removes the last one and the entry recorded for it.
C31_Bookkeeping ==
  /\ []((FromSource /\ pc \in {"walk", "ret"}) =>
          /\ Len(xys) >= 1 /\ xys[1] = <<>>
          /\ DOMAIN pos_ids = Pushed
          /\ \A m \in 2..Len(xys), n \in 2..Len(xys) :
               xys[m] = xys[n] => m = n
          /\ \A c \in DOMAIN pos_ids :
               /\ pos_ids[c] >= 0 /\ pos_ids[c] < Len(commands)
               /\ commands[pos_ids[c] + 1][1] \in base_mem_ops \cup {IFOP, None}
          /\ \A c \in DOMAIN pos_ids, d \in DOMAIN pos_ids :
               pos_ids[c] = pos_ids[d] => c = d
          /\ (Len(commands) > 0 /\ Last(commands)[1] \in base_mem_ops) =>
               /\ Len(xys) > 1
               /\ Last(xys) \in DOMAIN pos_ids
               /\ pos_ids[Last(xys)] = Len(commands) - 1
          /\ \A k \in 1..Len(commands) :
               commands[k][1] = GOTO =>
                 /\ commands[k][2] < k - 1
                 /\ \E c \in DOMAIN pos_ids : pos_ids[c] = commands[k][2])
  /\ [][(FromSource /\ pc \in {"walk", "ret"}
         /\ Len(commands') < Len(commands)) =>
          /\ commands' = SubSeq(commands, 1, Len(commands) - 1)
          /\ Last(commands)[1] \in base_mem_ops
          /\ DOMAIN pos_ids' = DOMAIN pos_ids \ {Last(xys)}
          /\ pos_ids[Last(xys)] = Len(commands) - 1
          /\ \A c \in DOMAIN pos_ids' : pos_ids'[c] = pos_ids[c]
     ]_vars

\* After a cancellation has removed a command and its entry, and the next
\* action has been folded into the command before it: on the board
\* v.. | <.# | ^<o the car is on the < of the middle row, and the one
\* coordinate left on xys is the one recorded for the last command.
C31_Witness ==
  /\ data = UndoProgram /\ Walking
  /\ Top.x = 0 /\ Top.y = 1 /\ Top.direc = LEFT
  /\ Last(commands) = <<PREV, 2>>
  /\ Len(xys) = 2
====
